---- MODULE Spec2Model ----
(***************************************************************************)
(* Model of scripts/download_endes.py: the batch driver (main), the        *)
(* per-URL fetcher (download_file) and the pure helpers collect_urls,      *)
(* read_url_file, build_headers and infer_filename.                        *)
(*                                                                         *)
(* Strings are sequences of one-character strings.  The nine characters    *)
(* of the literal 'filename=' are carried as the single symbol FilenameEq, *)
(* so that str.split("filename=") is a split on one symbol.                *)
(***************************************************************************)
EXTENDS Integers, Sequences, FiniteSets, TLC

VARIABLES
    args,        \* argparse.Namespace: url, url_file, header
    urls,        \* main: urls (the de-duplicated list)
    headers,     \* main: headers (the request header map)
    failures,    \* main: failures
    idx,         \* main: position of the for-loop in urls (1-based)
    pc,          \* control point of main / download_file
    exit_code,   \* process exit status, NoExit while running
    error,       \* exception that left main, "none" otherwise
    dest_files,  \* output directory: final files, name -> content
    temp_files,  \* output directory: files made by NamedTemporaryFile
    cur,         \* locals of the running download_file call
    attempted,   \* URLs download_file has been called with, in call order
    returned,    \* paths download_file has returned, in call order
    pre,         \* output directory as it was when the latest call began
    last,        \* how the latest download_file call ended (empty: by line 143)
    responses,   \* url -> headers and body length of the response it got
    call,        \* pure-function harness: the call's arguments
    ret          \* pure-function harness: the call's result

vars == <<args, urls, headers, failures, idx, pc, exit_code, error,
          dest_files, temp_files, cur, attempted, returned, pre, last, responses,
          call, ret>>

-----------------------------------------------------------------------------
(* Bounds *)

MaxCdLen == 4        \* symbols in a Content-Disposition value
MaxUrlLen == 3       \* symbols in a URL after its authority
MaxDirect == 3       \* --url occurrences (collect_urls harness)
MaxFileLines == 3    \* lines of the URL file (collect_urls harness)
MaxBody == 2         \* chunks in a response body
MaxRunDirect == 1    \* --url occurrences in a run of main

-----------------------------------------------------------------------------
(* Strings *)

FilenameEq == "filename="
Quote == "\""
Space == " "
Slash == "/"
QMark == "?"
Hash == "#"
Colon == ":"

Whitespace == {Space}

SeqsUpTo(S, n) == UNION {[1..k -> S] : k \in 0..n}

Range(s) == {s[i] : i \in DOMAIN s}

\* str.lstrip(chars)
RECURSIVE LStrip(_, _)
LStrip(s, chars) ==
    IF s = <<>> \/ Head(s) \notin chars THEN s ELSE LStrip(Tail(s), chars)

\* str.rstrip(chars)
RECURSIVE RStrip(_, _)
RStrip(s, chars) ==
    IF s = <<>> \/ s[Len(s)] \notin chars THEN s
    ELSE RStrip(SubSeq(s, 1, Len(s) - 1), chars)

\* str.strip(chars)
Strip(s, chars) == RStrip(LStrip(s, chars), chars)

\* s.split(sep)[-1] for a one-symbol separator
RECURSIVE SplitLast(_, _)
SplitLast(s, sep) ==
    IF sep \notin Range(s) THEN s
    ELSE LET first == CHOOSE i \in DOMAIN s :
                        s[i] = sep /\ \A j \in 1..(i - 1) : s[j] # sep
         IN SplitLast(SubSeq(s, first + 1, Len(s)), sep)

\* s.split(sep, 1) for a one-symbol separator that occurs in s
SplitFirst(s, sep) ==
    LET first == CHOOSE i \in DOMAIN s :
                   s[i] = sep /\ \A j \in 1..(i - 1) : s[j] # sep
    IN <<SubSeq(s, 1, first - 1), SubSeq(s, first + 1, Len(s))>>

-----------------------------------------------------------------------------
(* infer_filename *)

ContentDisposition == <<"Content-Disposition">>
DownloadedFile == <<"downloaded_file">>

\* dict.get(key, default)
Get(hdrs, key, default) ==
    IF key \in DOMAIN hdrs THEN hdrs[key] ELSE default

\* urlparse(url).path of "scheme://host" followed by tail: the part of the
\* tail before the query or fragment
RECURSIVE UrlPath(_)
UrlPath(tail) ==
    IF tail = <<>> \/ Head(tail) \in {QMark, Hash} THEN <<>>
    ELSE <<Head(tail)>> \o UrlPath(Tail(tail))

\* os.path.basename
Basename(path) == SplitLast(path, Slash)

InferFilenameNoValueCheck(url, hdrs) ==
    LET content_disposition == Get(hdrs, ContentDisposition, <<>>)
    IN IF FilenameEq \in Range(content_disposition)
       THEN Strip(Strip(SplitLast(content_disposition, FilenameEq),
                        Whitespace), {Quote})
       ELSE LET name == Basename(UrlPath(url))
            IN IF name # <<>> THEN name ELSE DownloadedFile

InferFilename(url, hdrs) ==
    LET content_disposition == Get(hdrs, ContentDisposition, <<>>)
        value == Strip(Strip(SplitLast(content_disposition, FilenameEq),
                             Whitespace), {Quote})
        name == Basename(UrlPath(url))
    IN IF FilenameEq \in Range(content_disposition) /\ value # <<>>
       THEN value
       ELSE IF name # <<>> THEN name ELSE DownloadedFile

-----------------------------------------------------------------------------
(* read_url_file, collect_urls *)

\* args.url_file: kind "none" is None, "unreadable" a path open() rejects,
\* "readable" a file holding lines
NoFile == [kind |-> "none", lines |-> <<>>]
UnreadableFile == [kind |-> "unreadable", lines |-> <<>>]
ReadableFile(lines) == [kind |-> "readable", lines |-> lines]

\* the for-loop of read_url_file over the lines of the file
RECURSIVE ReadLines(_)
ReadLines(lines) ==
    IF lines = <<>> THEN <<>>
    ELSE LET stripped == Strip(Head(lines), Whitespace)
         IN IF stripped = <<>> \/ Head(stripped) = Hash
            THEN ReadLines(Tail(lines))
            ELSE <<stripped>> \o ReadLines(Tail(lines))

\* read_url_file for a path that is None or opens
ReadUrlFile(file) == IF file.kind = "none" THEN <<>> ELSE ReadLines(file.lines)

\* the loop of collect_urls over urls[k..], with unique_urls and seen so far
RECURSIVE UniqueLoop(_, _, _)
UniqueLoop(all, unique_urls, seen) ==
    IF all = <<>> THEN unique_urls
    ELSE IF Head(all) \in seen
         THEN UniqueLoop(Tail(all), unique_urls, seen)
         ELSE UniqueLoop(Tail(all), Append(unique_urls, Head(all)),
                         seen \cup {Head(all)})

CollectUrlsNoSeen(direct, file) ==
    direct \o ReadUrlFile(file)

CollectUrls(direct, file) ==
    UniqueLoop(direct \o ReadUrlFile(file), <<>>, {})

-----------------------------------------------------------------------------
(* build_headers *)

UserAgent == <<"User-Agent">>
Referer == <<"Referer">>
DefaultUserAgent == <<"ENDESDownloader">>
EmptyMap == [k \in {} |-> <<>>]

\* the for-loop of build_headers; raised is TRUE when an entry without ':'
\* raises DownloadError
RECURSIVE HeaderLoop(_, _)
HeaderLoop(extra_headers, hdrs) ==
    IF extra_headers = <<>> THEN [raised |-> FALSE, headers |-> hdrs]
    ELSE LET raw_header == Head(extra_headers)
         IN IF Colon \notin Range(raw_header)
            THEN [raised |-> TRUE, headers |-> EmptyMap]
            ELSE LET parts == SplitFirst(raw_header, Colon)
                     name == Strip(parts[1], Whitespace)
                     value == Strip(parts[2], Whitespace)
                 IN HeaderLoop(Tail(extra_headers),
                               [k \in DOMAIN hdrs \cup {name} |->
                                   IF k = name THEN value ELSE hdrs[k]])

\* headers before the for-loop: User-Agent, and Referer when one is given
BaseHeaders(user_agent, referer) ==
    [k \in {UserAgent} \cup (IF referer # <<>> THEN {Referer} ELSE {}) |->
        IF k = UserAgent THEN user_agent ELSE referer]

BuildHeadersSkipInvalid(user_agent, referer, extra_headers) ==
    HeaderLoop(SelectSeq(extra_headers, LAMBDA h : Colon \in Range(h)),
               BaseHeaders(user_agent, referer))

BuildHeaders(user_agent, referer, extra_headers) ==
    HeaderLoop(extra_headers, BaseHeaders(user_agent, referer))

-----------------------------------------------------------------------------
(* The output directory and the inputs of a run of main *)

OutputDir == "output_dir"
NoExit == -1

\* URLs, written as what follows "https://example.org"
UrlA == <<Slash, "a">>
UrlB == <<Slash, "b">>
UrlRoot == <<Slash>>
RunUrls == {UrlA, UrlB, UrlRoot}

\* --url-file values of a run
RunUrlFiles ==
    {NoFile, UnreadableFile,
     ReadableFile(<< <<Hash, Slash, "b">>, <<Space, Slash, Space>>, <<>>,
                     <<Slash, "a">> >>),
     ReadableFile(<< <<Space, Hash>> >>)}

\* --header values of a run
RunHeaderArgs ==
    {<<>>, << <<"n", Colon, Space, "v">> >>,
     << <<"n", Colon, "v">>, <<"n", "v">> >>}

\* header maps a response of a run carries
SurveyCd == [k \in {ContentDisposition} |-> <<FilenameEq, Quote, "s", Quote>>]
RunResponseHeaders == {EmptyMap, SurveyCd}

\* the file the output directory holds before the run
OldFile == [url |-> <<"preexisting">>, size |-> 1]
InitialDest == [n \in {<<"s">>} |-> OldFile]

NoCall == [url |-> <<>>, filename |-> <<>>, body_len |-> 0, written |-> 0,
           temp_name |-> 0]
NoLast == [outcome |-> "none", empty |-> FALSE, url |-> <<>>]

Path(dir, name) == [dir |-> dir, name |-> name]

\* dict/directory update: m with key k bound to v
Put(m, k, v) == [x \in DOMAIN m \cup {k} |-> IF x = k THEN v ELSE m[x]]
\* m without key k
Drop(m, k) == [x \in DOMAIN m \ {k} |-> m[x]]

HarnessIdle == call = <<>> /\ ret = <<>>

Init ==
    /\ args \in [url : SeqsUpTo(RunUrls, MaxRunDirect),
                 url_file : RunUrlFiles,
                 user_agent : {DefaultUserAgent},
                 referer : {<<>>},
                 header : RunHeaderArgs]
    /\ urls = <<>>
    /\ headers = EmptyMap
    /\ failures = <<>>
    /\ idx = 0
    /\ pc = "collect"
    /\ exit_code = NoExit
    /\ error = "none"
    /\ dest_files = InitialDest
    /\ temp_files = EmptyMap
    /\ cur = NoCall
    /\ attempted = <<>>
    /\ returned = <<>>
    /\ pre = [dest |-> InitialDest, temp |-> EmptyMap]
    /\ last = NoLast
    /\ responses = EmptyMap
    /\ HarnessIdle

-----------------------------------------------------------------------------
(* main *)

\* an exception leaves main: the interpreter exits with status 1
MainRaises(exc) ==
    /\ error' = exc
    /\ exit_code' = 1
    /\ pc' = "done"

\* main, lines 167-170, when open() of the URL file raises
CollectUrlsRaises ==
    /\ pc = "collect"
    /\ args.url_file.kind = "unreadable"
    /\ MainRaises("OSError")
    /\ UNCHANGED <<args, urls, headers, failures, idx, dest_files, temp_files,
                   cur, attempted, returned, pre, last, responses, call, ret>>

\* main, lines 167-170
MainCollect ==
    /\ pc = "collect"
    /\ args.url_file.kind # "unreadable"
    /\ urls' = CollectUrls(args.url, args.url_file)
    /\ IF urls' = <<>>
       THEN /\ exit_code' = 2
            /\ pc' = "done"
       ELSE /\ exit_code' = exit_code
            /\ pc' = "headers"
    /\ UNCHANGED <<args, headers, failures, idx, error, dest_files, temp_files,
                   cur, attempted, returned, pre, last, responses, call, ret>>

\* main, lines 172-174, when build_headers raises
BuildHeadersRaises ==
    /\ pc = "headers"
    /\ BuildHeaders(args.user_agent, args.referer, args.header).raised
    /\ MainRaises("DownloadError")
    /\ UNCHANGED <<args, urls, headers, failures, idx, dest_files, temp_files,
                   cur, attempted, returned, pre, last, responses, call, ret>>

\* main, lines 172-174
MainBuildHeaders ==
    /\ pc = "headers"
    /\ LET built == BuildHeaders(args.user_agent, args.referer, args.header)
       IN /\ ~built.raised
          /\ headers' = built.headers
    /\ failures' = <<>>
    /\ idx' = 1
    /\ pc' = "loop"
    /\ UNCHANGED <<args, urls, exit_code, error, dest_files, temp_files, cur,
                   attempted, returned, pre, last, responses, call, ret>>

ExceptBreaks(reason) ==
    /\ failures' = Append(failures, urls[idx])
    /\ last' = [outcome |-> "raised", empty |-> reason = "empty",
                url |-> urls[idx]]
    /\ idx' = Len(urls) + 1
    /\ pc' = "loop"
    /\ cur' = NoCall

\* main, lines 178-180: the except clause, then the next iteration
Except(reason) ==
    /\ failures' = Append(failures, urls[idx])
    /\ last' = [outcome |-> "raised", empty |-> reason = "empty",
                url |-> urls[idx]]
    /\ idx' = idx + 1
    /\ pc' = "loop"
    /\ cur' = NoCall

MainFinishAlwaysZero ==
    /\ pc = "loop"
    /\ idx > Len(urls)
    /\ exit_code' = 0
    /\ pc' = "done"
    /\ UNCHANGED <<args, urls, headers, failures, idx, error, dest_files,
                   temp_files, cur, attempted, returned, pre, last, responses,
                   call, ret>>

\* main, lines 182-187
MainFinish ==
    /\ pc = "loop"
    /\ idx > Len(urls)
    /\ exit_code' = IF failures # <<>> THEN 1 ELSE 0
    /\ pc' = "done"
    /\ UNCHANGED <<args, urls, headers, failures, idx, error, dest_files,
                   temp_files, cur, attempted, returned, pre, last, responses,
                   call, ret>>

-----------------------------------------------------------------------------
(* download_file *)

\* the call begins: line 177 and lines 124-126
Enter ==
    /\ pc = "loop"
    /\ idx <= Len(urls)
    /\ attempted' = Append(attempted, urls[idx])
    /\ pre' = [dest |-> dest_files, temp |-> temp_files]

\* line 127: urlopen raises (connection error, timeout, HTTP error status)
UrlopenRaises ==
    /\ Enter
    /\ Except("urlopen")
    /\ UNCHANGED <<args, urls, headers, exit_code, error, dest_files,
                   temp_files, returned, responses, call, ret>>

\* lines 127-129: a response whose status is not 200
StatusNot200 ==
    /\ Enter
    /\ Except("status")
    /\ UNCHANGED <<args, urls, headers, exit_code, error, dest_files,
                   temp_files, returned, responses, call, ret>>

\* lines 127-135: status 200, then mkdir or NamedTemporaryFile raises
CreateRaises ==
    /\ Enter
    /\ Except("create")
    /\ UNCHANGED <<args, urls, headers, exit_code, error, dest_files,
                   temp_files, returned, responses, call, ret>>

SystemTempDir == "tmp"

\* the directory NamedTemporaryFile is given at line 135
TempDir == OutputDir

\* lines 127-136: status 200, the filename is inferred and the temporary
\* file is created empty
ResponseOk ==
    /\ Enter
    /\ \E response_headers \in RunResponseHeaders, body_len \in 0..MaxBody :
          /\ cur' = [url |-> urls[idx],
                     filename |-> InferFilename(urls[idx], response_headers),
                     body_len |-> body_len,
                     written |-> 0,
                     temp_name |-> idx]
          /\ responses' = Put(responses, urls[idx],
                               [headers |-> response_headers,
                                body_len |-> body_len])
    /\ temp_files' = Put(temp_files, idx,
                         [dir |-> TempDir, url |-> urls[idx], size |-> 0])
    /\ pc' = "stream"
    /\ UNCHANGED <<args, urls, headers, failures, idx, exit_code, error,
                   dest_files, returned, last, call, ret>>

\* line 137: copyfileobj moves one more chunk of the body to the temp file
CopyChunk ==
    /\ pc = "stream"
    /\ cur.written < cur.body_len
    /\ cur' = [cur EXCEPT !.written = @ + 1]
    /\ temp_files' = [temp_files EXCEPT ![cur.temp_name].size = @ + 1]
    /\ UNCHANGED <<args, urls, headers, failures, idx, pc, exit_code, error,
                   dest_files, attempted, returned, pre, last, responses, call,
                   ret>>

\* line 137: a read of the response or a write of the temp file raises;
\* both with-blocks close and the exception reaches the except clause
CopyRaises ==
    /\ pc = "stream"
    /\ Except("stream")
    /\ UNCHANGED <<args, urls, headers, exit_code, error, dest_files,
                   temp_files, attempted, returned, pre, responses, call, ret>>

\* line 137: the body has ended; the with-blocks close
CopyDone ==
    /\ pc = "stream"
    /\ cur.written = cur.body_len
    /\ pc' = "size"
    /\ UNCHANGED <<args, urls, headers, failures, idx, exit_code, error,
                   dest_files, temp_files, cur, attempted, returned, pre,
                   last, responses, call, ret>>

EmptyRaisesKeepsTemp ==
    /\ pc = "size"
    /\ temp_files[cur.temp_name].size = 0
    /\ Except("empty")
    /\ UNCHANGED <<args, urls, headers, exit_code, error, dest_files,
                   temp_files, attempted, returned, pre, responses, call, ret>>

\* lines 139-143: the temp file is empty; it is removed and DownloadError
\* raised
EmptyRaises ==
    /\ pc = "size"
    /\ temp_files[cur.temp_name].size = 0
    /\ temp_files' = Drop(temp_files, cur.temp_name)
    /\ Except("empty")
    /\ UNCHANGED <<args, urls, headers, exit_code, error, dest_files,
                   attempted, returned, pre, responses, call, ret>>

\* lines 139-140: the temp file is not empty
SizeOk ==
    /\ pc = "size"
    /\ temp_files[cur.temp_name].size # 0
    /\ pc' = "replace"
    /\ UNCHANGED <<args, urls, headers, failures, idx, exit_code, error,
                   dest_files, temp_files, cur, attempted, returned, pre,
                   last, responses, call, ret>>

\* line 145: os.replace raises (the destination is a directory, ...)
ReplaceRaises ==
    /\ pc = "replace"
    /\ Except("replace")
    /\ UNCHANGED <<args, urls, headers, exit_code, error, dest_files,
                   temp_files, attempted, returned, pre, responses, call, ret>>

ReplaceCopies ==
    /\ pc = "replace"
    /\ dest_files' = Put(dest_files, cur.filename,
                         [url |-> temp_files[cur.temp_name].url,
                          size |-> temp_files[cur.temp_name].size])
    /\ returned' = Append(returned, [url |-> cur.url,
                                     path |-> Path(OutputDir, cur.filename)])
    /\ last' = [outcome |-> "returned", empty |-> FALSE, url |-> cur.url]
    /\ idx' = idx + 1
    /\ pc' = "loop"
    /\ cur' = NoCall
    /\ UNCHANGED <<args, urls, headers, failures, exit_code, error, attempted,
                   pre, responses, temp_files, call, ret>>

ReplaceKeepsExisting ==
    /\ pc = "replace"
    /\ dest_files' = IF cur.filename \in DOMAIN dest_files THEN dest_files
                     ELSE Put(dest_files, cur.filename,
                              [url |-> temp_files[cur.temp_name].url,
                               size |-> temp_files[cur.temp_name].size])
    /\ temp_files' = Drop(temp_files, cur.temp_name)
    /\ returned' = Append(returned, [url |-> cur.url,
                                     path |-> Path(OutputDir, cur.filename)])
    /\ last' = [outcome |-> "returned", empty |-> FALSE, url |-> cur.url]
    /\ idx' = idx + 1
    /\ pc' = "loop"
    /\ cur' = NoCall
    /\ UNCHANGED <<args, urls, headers, failures, exit_code, error, attempted,
                   pre, responses, call, ret>>

\* lines 145-147: os.replace moves the temp file onto output_path and the
\* call returns output_path
Replace ==
    /\ pc = "replace"
    /\ dest_files' = Put(dest_files, cur.filename,
                         [url |-> temp_files[cur.temp_name].url,
                          size |-> temp_files[cur.temp_name].size])
    /\ temp_files' = Drop(temp_files, cur.temp_name)
    /\ returned' = Append(returned, [url |-> cur.url,
                                     path |-> Path(OutputDir, cur.filename)])
    /\ last' = [outcome |-> "returned", empty |-> FALSE, url |-> cur.url]
    /\ idx' = idx + 1
    /\ pc' = "loop"
    /\ cur' = NoCall
    /\ UNCHANGED <<args, urls, headers, failures, exit_code, error, attempted,
                   pre, responses, call, ret>>

Next ==
    \/ CollectUrlsRaises
    \/ MainCollect
    \/ BuildHeadersRaises
    \/ MainBuildHeaders
    \/ UrlopenRaises
    \/ StatusNot200
    \/ CreateRaises
    \/ ResponseOk
    \/ CopyChunk
    \/ CopyRaises
    \/ CopyDone
    \/ EmptyRaises
    \/ SizeOk
    \/ ReplaceRaises
    \/ Replace
    \/ MainFinish

Spec == Init /\ [][Next]_vars

-----------------------------------------------------------------------------
(* Harnesses that call the pure functions on bounded inputs *)

MainIdle ==
    /\ args = [url |-> <<>>, url_file |-> NoFile,
               user_agent |-> DefaultUserAgent, referer |-> <<>>,
               header |-> <<>>]
    /\ urls = <<>>
    /\ headers = EmptyMap
    /\ failures = <<>>
    /\ idx = 0
    /\ exit_code = NoExit
    /\ error = "none"
    /\ dest_files = EmptyMap
    /\ temp_files = EmptyMap
    /\ cur = NoCall
    /\ attempted = <<>>
    /\ returned = <<>>
    /\ pre = [dest |-> EmptyMap, temp |-> EmptyMap]
    /\ last = NoLast
    /\ responses = EmptyMap

mainVars == <<args, urls, headers, failures, idx, exit_code, error,
              dest_files, temp_files, cur, attempted, returned, pre, last,
              responses>>

\* URLs after the authority: empty, or a path, or a query
UrlAlphabet == {Slash, "a", QMark}
UrlTails ==
    {t \in SeqsUpTo(UrlAlphabet, MaxUrlLen) : t = <<>> \/ Head(t) # "a"}

\* response header maps: none, or one Content-Disposition header whose name
\* is spelled as the server chose
CdAlphabet == {FilenameEq, Quote, Space, "a"}
LowerContentDisposition == <<"content-disposition">>
ResponseHeaderMaps ==
    {EmptyMap} \cup
    {[k \in {key} |-> cd] :
        key \in {ContentDisposition, LowerContentDisposition},
        cd \in SeqsUpTo(CdAlphabet, MaxCdLen)}

InferInit ==
    /\ MainIdle
    /\ pc = "call"
    /\ call \in [url : UrlTails, headers : ResponseHeaderMaps]
    /\ ret = <<>>

InferCall ==
    /\ pc = "call"
    /\ ret' = InferFilename(call.url, call.headers)
    /\ pc' = "ret"
    /\ UNCHANGED <<mainVars, call>>

SpecInfer == InferInit /\ [][InferCall]_vars

\* --url values and URL-file lines of the collect_urls harness
CollectDirect == {UrlA, UrlB, UrlRoot}
CollectLines ==
    {<<>>, <<Space>>, <<Hash, Slash, "a">>, <<Space, Slash, "a", Space>>,
     <<Slash, "b">>, <<Slash>>}

CollectInit ==
    /\ MainIdle
    /\ pc = "call"
    /\ call \in [url : SeqsUpTo(CollectDirect, MaxDirect),
                 url_file : {NoFile} \cup
                            {ReadableFile(l) :
                                l \in SeqsUpTo(CollectLines, MaxFileLines)}]
    /\ ret = <<>>

CollectCall ==
    /\ pc = "call"
    /\ ret' = CollectUrls(call.url, call.url_file)
    /\ pc' = "ret"
    /\ UNCHANGED <<mainVars, call>>

SpecCollect == CollectInit /\ [][CollectCall]_vars

-----------------------------------------------------------------------------
(* Vocabulary of the properties *)

Min(S) == CHOOSE x \in S : \A y \in S : x <= y
Max(S) == CHOOSE x \in S : \A y \in S : x >= y

\* s without the leading and trailing symbols that are in chars
Trimmed(s, chars) ==
    LET keep == {i \in DOMAIN s : s[i] \notin chars}
    IN IF keep = {} THEN <<>> ELSE SubSeq(s, Min(keep), Max(keep))

\* the header map has a Content-Disposition header with a filename= token
CarriesToken(hdrs) ==
    /\ ContentDisposition \in DOMAIN hdrs
    /\ \E i \in DOMAIN hdrs[ContentDisposition] :
          hdrs[ContentDisposition][i] = FilenameEq

\* what follows the last filename=, without surrounding blanks and quotes
TokenValue(hdrs) ==
    LET cd == hdrs[ContentDisposition]
        at == Max({i \in DOMAIN cd : cd[i] = FilenameEq})
    IN Trimmed(Trimmed(SubSeq(cd, at + 1, Len(cd)), Whitespace), {Quote})

\* the last segment of the path of a URL
LastSegment(url) ==
    LET stop == Min({i \in DOMAIN url : url[i] \in {QMark, Hash}}
                    \cup {Len(url) + 1})
        slashes == {i \in 1..(stop - 1) : url[i] = Slash}
    IN IF slashes = {} THEN SubSeq(url, 1, stop - 1)
       ELSE SubSeq(url, Max(slashes) + 1, stop - 1)

\* position of the first occurrence of x in s
FirstIndex(s, x) == Min({i \in DOMAIN s : s[i] = x})

-----------------------------------------------------------------------------
(* C7: infer_filename *)

\* C7 as stated: whenever the Content-Disposition header carries a filename=
\* token the result is the token's value without its quotes; otherwise the
\* last path segment of the URL if it is not empty; otherwise
\* 'downloaded_file'; and the result is never empty.
C7_AsStated ==
    pc = "ret" =>
        /\ CarriesToken(call.headers) => ret = TokenValue(call.headers)
        /\ ~CarriesToken(call.headers) /\ LastSegment(call.url) # <<>> =>
              ret = LastSegment(call.url)
        /\ ~CarriesToken(call.headers) /\ LastSegment(call.url) = <<>> =>
              ret = DownloadedFile
        /\ ret # <<>>

\* the filename= token decides the name: it is there and its value is not
\* empty
TokenDecides(hdrs) == CarriesToken(hdrs) /\ TokenValue(hdrs) # <<>>

\* C7 amended: the token's value is the result only when it is not empty;
\* a token with an empty value falls through to the URL's last path segment,
\* then to 'downloaded_file'; the result is never empty.
C7_InferFilenameChain ==
    pc = "ret" =>
        /\ TokenDecides(call.headers) => ret = TokenValue(call.headers)
        /\ ~TokenDecides(call.headers) /\ LastSegment(call.url) # <<>> =>
              ret = LastSegment(call.url)
        /\ ~TokenDecides(call.headers) /\ LastSegment(call.url) = <<>> =>
              ret = DownloadedFile
        /\ ret # <<>>

\* a token with a value wins over a URL that has a last path segment
C7_Witness ==
    /\ pc = "ret"
    /\ TokenDecides(call.headers)
    /\ LastSegment(call.url) # <<>>
    /\ ret = TokenValue(call.headers)
    /\ ret # LastSegment(call.url)

-----------------------------------------------------------------------------
(* C4: collect_urls *)

Combined == call.url \o ReadUrlFile(call.url_file)

\* C4: collect_urls returns the direct URLs followed by the file's URLs with
\* every later duplicate removed: the same URLs, each once, ordered by first
\* occurrence.
C4_CollectUrlsDedup ==
    pc = "ret" =>
        /\ Range(ret) = Range(Combined)
        /\ \A i, j \in DOMAIN ret : i # j => ret[i] # ret[j]
        /\ \A i, j \in DOMAIN ret :
              i < j => FirstIndex(Combined, ret[i]) < FirstIndex(Combined, ret[j])

\* a URL given directly and again in the file is kept once, among others
C4_Witness ==
    /\ pc = "ret"
    /\ Len(ret) >= 2
    /\ Len(ret) < Len(Combined)
    /\ Range(call.url) \cap Range(ReadUrlFile(call.url_file)) # {}

-----------------------------------------------------------------------------
(* Vocabulary of the properties about a run of main *)

\* no download_file call is running
BetweenCalls == pc \in {"loop", "done"}
InCall == pc \in {"stream", "size", "replace"}

ReturnedUrls == {returned[i].url : i \in DOMAIN returned}

\* URLs whose download_file call has ended by raising
RaisedUrls ==
    {attempted[i] : i \in
        {j \in DOMAIN attempted :
            /\ attempted[j] \notin ReturnedUrls
            /\ j < Len(attempted) \/ BetweenCalls}}

\* some --header entry has no ':'
HasBadHeader ==
    \E i \in DOMAIN args.header :
        \A j \in DOMAIN args.header[i] : args.header[i][j] # Colon

\* the name the response of url asks for, by the chain of infer_filename
InferredName(url) ==
    LET hdrs == responses[url].headers
    IN IF TokenDecides(hdrs) THEN TokenValue(hdrs)
       ELSE IF LastSegment(url) # <<>> THEN LastSegment(url)
       ELSE DownloadedFile

\* the complete body of the response of url, as a file
CompleteBody(url) == [url |-> url, size |-> responses[url].body_len]

\* the temp file of the latest call (NamedTemporaryFile names are unique)
LatestTemp == Len(attempted)

-----------------------------------------------------------------------------
(* C1: exit codes *)

\* C1 as stated, on the runs that compute the URL list: at exit, the exit
\* code is 2 exactly when the de-duplicated list is empty (and no download
\* was called); otherwise it is 1 exactly when some download_file call raised
\* and 0 exactly when every URL's call returned normally.
C1_AsStated ==
    pc = "done" /\ args.url_file.kind # "unreadable" =>
        /\ exit_code = 2 <=> urls = <<>>
        /\ exit_code = 2 => attempted = <<>>
        /\ urls # <<>> =>
              /\ exit_code = 1 <=> RaisedUrls # {}
              /\ exit_code = 0 <=> Range(urls) = ReturnedUrls

\* C1 amended: the three-way rule holds of the runs in which main returns;
\* when the URL file cannot be opened, or the list is not empty and a header
\* entry lacks ':', an exception leaves main, the exit status is 1 and
\* no download was called.
C1_ExitCodes ==
    pc = "done" =>
        /\ error = "none" =>
              /\ exit_code = 2 <=> urls = <<>>
              /\ exit_code = 2 => attempted = <<>>
              /\ urls # <<>> =>
                    /\ exit_code = 1 <=> RaisedUrls # {}
                    /\ exit_code = 0 <=> Range(urls) = ReturnedUrls
        /\ error # "none" =>
              /\ exit_code = 1
              /\ attempted = <<>>
              /\ \/ error = "OSError" /\ args.url_file.kind = "unreadable"
                 \/ error = "DownloadError" /\ urls # <<>> /\ HasBadHeader
        /\ exit_code \in {0, 1, 2}

\* a run that ends with 1 after one URL succeeded and another failed
C1_Witness ==
    /\ pc = "done"
    /\ error = "none"
    /\ exit_code = 1
    /\ ReturnedUrls # {}
    /\ RaisedUrls # {}

-----------------------------------------------------------------------------
(* C2: the batch loop *)

\* the URLs of s that are in S, in the order of s
Only(s, S) == SelectSeq(s, LAMBDA u : u \in S)

\* C2: the loop calls download_file on the URLs in list order, each once; a
\* call that raises is appended to the failure list and the loop goes on; the
\* exit code of a run that reached the loop is set only when every URL has
\* been attempted.  With three URLs of which only the second fails, the
\* paths returned for the first and the third exist at exit (each holding
\* its own body when the two names differ) and the failure list is the
\* second URL alone.
C2_BatchLoop ==
    /\ attempted = SubSeq(urls, 1, Len(attempted))
    /\ pc = "loop" => Len(attempted) = idx - 1
    /\ InCall => Len(attempted) = idx
    /\ failures = Only(attempted, RaisedUrls)
    /\ Len(returned) + Len(failures) + (IF InCall THEN 1 ELSE 0)
          = Len(attempted)
    /\ exit_code # NoExit /\ error = "none" /\ urls # <<>> =>
          attempted = urls
    /\ pc = "done" /\ error = "none" /\ Len(urls) = 3
          /\ RaisedUrls = {urls[2]} =>
          /\ failures = <<urls[2]>>
          /\ exit_code = 1
          /\ \A i \in DOMAIN returned :
                /\ returned[i].url \in {urls[1], urls[3]}
                /\ returned[i].path.name \in DOMAIN dest_files
          /\ returned[1].path # returned[2].path =>
                \A i \in {1, 2} :
                    dest_files[returned[i].path.name]
                        = CompleteBody(returned[i].url)

\* three URLs, the second failed, the first and the third were saved
C2_Witness ==
    /\ pc = "done"
    /\ Len(urls) = 3
    /\ failures = <<urls[2]>>
    /\ Len(returned) = 2
    /\ returned[1].path # returned[2].path

-----------------------------------------------------------------------------
(* C3: malformed --header *)

\* C3 as stated, on the runs that compute the URL list: in every run with a
\* --header entry that has no ':', main ends with the DownloadError of
\* build_headers and download_file is never called, whatever URLs were
\* supplied.
C3_AsStated ==
    HasBadHeader /\ args.url_file.kind # "unreadable" =>
        /\ attempted = <<>>
        /\ pc = "done" => error = "DownloadError"

\* C3 amended: with a --header entry that has no ':' download_file is never
\* called; the run ends with the DownloadError of build_headers when the
\* de-duplicated list is not empty, and with exit code 2 and no error when
\* the list is empty, because main returns before it builds the headers.
C3_BadHeader ==
    HasBadHeader =>
        /\ attempted = <<>>
        /\ pc = "done" /\ urls # <<>> =>
              error = "DownloadError" /\ exit_code = 1
        /\ pc = "done" /\ urls = <<>> /\ args.url_file.kind # "unreadable" =>
              error = "none" /\ exit_code = 2

\* URLs were supplied along with a malformed header, and the run has ended
C3_Witness ==
    /\ HasBadHeader
    /\ pc = "done"
    /\ urls # <<>>
    /\ error = "DownloadError"

-----------------------------------------------------------------------------
(* C5: a download_file call that returns *)

\* C5: when download_file has returned, the path it returned is
\* output_dir/<inferred name>, that path holds the complete body (whatever
\* was there before), the temp file of the call is gone and nothing else in
\* the output directory has changed.
C5_SuccessfulDownload ==
    BetweenCalls /\ last.outcome = "returned" =>
        LET r == returned[Len(returned)]
        IN /\ r.url = last.url
           /\ r.path = Path(OutputDir, InferredName(r.url))
           /\ dest_files = Put(pre.dest, r.path.name, CompleteBody(r.url))
           /\ CompleteBody(r.url).size > 0
           /\ LatestTemp \notin DOMAIN temp_files
           /\ temp_files = pre.temp

\* a two-chunk body has replaced the file that was at the destination
C5_Witness ==
    /\ BetweenCalls
    /\ last.outcome = "returned"
    /\ returned[Len(returned)].path.name \in DOMAIN pre.dest
    /\ pre.dest[returned[Len(returned)].path.name] = OldFile
    /\ dest_files[returned[Len(returned)].path.name].size = 2

-----------------------------------------------------------------------------
(* C6: status 200 with an empty body *)

\* C6: a 200 response whose body is empty makes download_file raise, never
\* return; after the failure the temp file of the call is gone and the
\* destination, like the rest of the output directory, is as it was.
C6_EmptyBody ==
    /\ \A u \in ReturnedUrls : responses[u].body_len # 0
    /\ pc = "size" /\ cur.body_len = 0 => ~ENABLED SizeOk
    /\ BetweenCalls /\ last.empty =>
          /\ last.outcome = "raised"
          /\ responses[last.url].body_len = 0
          /\ last.url \in RaisedUrls
          /\ LatestTemp \notin DOMAIN temp_files
          /\ temp_files = pre.temp
          /\ dest_files = pre.dest

\* an empty body was rejected while a file sits at the destination path
C6_Witness ==
    /\ BetweenCalls
    /\ last.empty
    /\ InferredName(last.url) \in DOMAIN dest_files

-----------------------------------------------------------------------------
(* C8: the destination is never partially written *)

\* C8: while a download_file call runs the destination holds what it held
\* before the call; body chunks go to a temp file inside the output
\* directory; the destination changes only in the replace step, which is
\* reached with the whole body in the temp file and a size that is not zero;
\* so every final file is complete.
C8_AtomicDestination ==
    /\ InCall => dest_files = pre.dest
    /\ InCall =>
          /\ cur.temp_name \in DOMAIN temp_files
          /\ temp_files[cur.temp_name].size = cur.written
          /\ cur.written <= cur.body_len
    /\ \A t \in DOMAIN temp_files : temp_files[t].dir = OutputDir
    /\ pc = "replace" => cur.written = cur.body_len /\ cur.body_len > 0
    /\ BetweenCalls /\ last.outcome = "raised" => dest_files = pre.dest
    /\ BetweenCalls /\ last.outcome = "returned" =>
          dest_files = Put(pre.dest, InferredName(last.url),
                           CompleteBody(last.url))
    /\ \A n \in DOMAIN dest_files :
          \/ dest_files[n] = OldFile
          \/ dest_files[n] = CompleteBody(dest_files[n].url)

\* half of a body is in the temp file and the old file is still in place
C8_Witness ==
    /\ pc = "stream"
    /\ cur.written = 1
    /\ cur.body_len = 2
    /\ cur.filename \in DOMAIN dest_files
    /\ dest_files[cur.filename] = OldFile

-----------------------------------------------------------------------------
(* C9: files written by a batch *)

\* final files the run has written
WrittenFiles == {n \in DOMAIN dest_files : dest_files[n] # OldFile}

\* C9 as stated: at the end of a run every URL whose call returned has a file
\* holding its body, and the number of files written equals the number of
\* successful URLs, also when two URLs infer the same name.
C9_AsStated ==
    pc = "done" =>
        /\ \A i \in DOMAIN returned :
              /\ returned[i].path.name \in DOMAIN dest_files
              /\ dest_files[returned[i].path.name]
                    = CompleteBody(returned[i].url)
        /\ Cardinality(WrittenFiles) = Len(returned)

\* the last call that returned path p
LastWriter(p) == Max({i \in DOMAIN returned : returned[i].path = p})

\* C9 amended: at the end of a run every returned path holds the complete
\* body of the last URL that was saved under it, and the number of final
\* files written equals the number of distinct returned paths; two URLs that
\* infer the same name leave one file.
C9_OneFilePerName ==
    pc = "done" =>
        /\ \A i \in DOMAIN returned :
              /\ returned[i].path.name \in DOMAIN dest_files
              /\ dest_files[returned[i].path.name]
                    = CompleteBody(returned[LastWriter(returned[i].path)].url)
        /\ WrittenFiles = {returned[i].path.name : i \in DOMAIN returned}
        /\ \A n \in DOMAIN dest_files \ WrittenFiles :
              n \in DOMAIN InitialDest /\ dest_files[n] = InitialDest[n]

\* two URLs were saved under one name
C9_Witness ==
    /\ pc = "done"
    /\ \E i, j \in DOMAIN returned :
          /\ i < j
          /\ returned[i].path = returned[j].path
          /\ dest_files[returned[i].path.name] = CompleteBody(returned[j].url)

-----------------------------------------------------------------------------
(* C10: a download_file call that raises *)

\* C10 as stated: a download_file call that raises, for whatever reason,
\* leaves the output directory as it was before the call, without the temp
\* file it made; so no temp file is left when main ends.
C10_AsStated ==
    /\ BetweenCalls /\ last.outcome = "raised" =>
          /\ dest_files = pre.dest
          /\ temp_files = pre.temp
    /\ pc = "done" => temp_files = EmptyMap

====
